---- MODULE Spec2Model ----
(***************************************************************************)
(* Movie catalog service (src/maincapstoneproject.py): registration,       *)
(* login, bearer-token guard, owner-checked movie CRUD, paginated listing  *)
(* and the per-request database-session middleware.                        *)
(*                                                                         *)
(* The persistence layer is SQLite behind SQLAlchemy: a table is a set of  *)
(* rows, an INTEGER PRIMARY KEY is the rowid (a new row gets max+1), and   *)
(* the UNIQUE constraint on users.username is enforced at commit.  JWTs    *)
(* are modelled symbolically: a signature is the pair (key, signed         *)
(* claims), so a token verifies only when its claims are the ones that     *)
(* were signed with the server's key.  Time is counted in ticks with       *)
(* TicksPerSec ticks to the second, because datetime.utcnow() is finer     *)
(* than the whole seconds a JWT's exp claim carries.                       *)
(***************************************************************************)
EXTENDS Integers, Sequences, FiniteSets, TLC

VARIABLES users, movies, now, reg, held, last, before, pages, mwlog

vars == <<users, movies, now, reg, held, last, before, pages, mwlog>>

(***************************************************************************)
(* Bounds of the model.                                                    *)
(***************************************************************************)
MaxUsers == 3
MaxMovieId == 2
NumProcs == 2
TicksPerSec == 2
MaxIssueDelay == 3
MaxListMovies == 3
MaxRequests == 4

(***************************************************************************)
(* Program constants and input domains.                                    *)
(***************************************************************************)
ACCESS_TOKEN_EXPIRE_MINUTES == 30
DefaultExpireMinutes == 15
SECRET_KEY == "your_secret_key"
OtherKey == "attacker_key"

Usernames == {"alice", "bob"}
Passwords == {"pw1", "pw2"}
Salts == {"s1", "s2"}
\* The (title, description) pairs a client sends.
MovieTexts == {<<"X", "Y">>, <<"Z", "W">>}
Procs == 1..NumProcs

ExpireSeconds == ACCESS_TOKEN_EXPIRE_MINUTES * 60
\* The wall clock when the model starts: late enough that a token issued
\* before the start can already have expired.
BootSeconds == ExpireSeconds + 1
BootTicks == BootSeconds * TicksPerSec
MaxClock == BootTicks + (ExpireSeconds + 2) * TicksPerSec + MaxIssueDelay

SetMax(S) == CHOOSE x \in S : \A y \in S : y <= x

(***************************************************************************)
(* Password hasher (passlib bcrypt): the blob embeds its salt.             *)
(***************************************************************************)
get_password_hash(password, salt) == [salt |-> salt, digest |-> <<salt, password>>]

verify_password(plain_password, hashed_password) ==
    hashed_password.digest = <<hashed_password.salt, plain_password>>

(***************************************************************************)
(* Token service (python-jose).                                            *)
(***************************************************************************)
Sign(key, user_id, exp) == [key |-> key, user_id |-> user_id, exp |-> exp]

\* The request carries no Authorization header.
NoToken == [present |-> FALSE, user_id |-> 0, exp |-> 0, sig |-> Sign("", 0, 0)]

\* user_id = 0 stands for a payload without the "user_id" claim.
jwt_encode(user_id, exp, key) ==
    [present |-> TRUE, user_id |-> user_id, exp |-> exp, sig |-> Sign(key, user_id, exp)]

\* Whole seconds of the clock: timegm(datetime.utcnow().utctimetuple()).
UtcSeconds(t) == t \div TicksPerSec

TokenExpiry_Default15(t) == UtcSeconds(t + DefaultExpireMinutes * 60 * TicksPerSec)

\* expire = datetime.utcnow() + expires_delta, stored in the token as whole seconds.
TokenExpiry(t) == UtcSeconds(t + ExpireSeconds * TicksPerSec)

create_access_token(user_id, t) == jwt_encode(user_id, TokenExpiry(t), SECRET_KEY)

jwt_decode_NoVerify(token, key, t) ==
    IF token.exp < UtcSeconds(t) THEN [ok |-> FALSE, user_id |-> 0]
    ELSE [ok |-> TRUE, user_id |-> token.user_id]

\* jwt.decode: the signature is verified first, then exp against the clock.
jwt_decode(token, key, t) ==
    IF token.sig # Sign(key, token.user_id, token.exp) THEN [ok |-> FALSE, user_id |-> 0]
    ELSE IF token.exp < UtcSeconds(t) THEN [ok |-> FALSE, user_id |-> 0]
    ELSE [ok |-> TRUE, user_id |-> token.user_id]

(***************************************************************************)
(* Tables.                                                                 *)
(***************************************************************************)
Ids(rows) == {r.id : r \in rows}

NextId_Count(rows) == Cardinality(rows) + 1

\* SQLite rowid allocation for an INTEGER PRIMARY KEY.
NextId(rows) == IF rows = {} THEN 1 ELSE SetMax(Ids(rows)) + 1

\* db.query(T).get(id)
GetById(rows, id) == {r \in rows : r.id = id}

\* db.query(User).filter_by(username=username)
ByUsername(urows, username) == {u \in urows : u.username = username}

UniqueViolation_None(urows, username) == FALSE

\* users.username is UNIQUE: the INSERT fails at commit.
UniqueViolation(urows, username) == ByUsername(urows, username) # {}

(***************************************************************************)
(* Responses and the record of the last completed request.                 *)
(***************************************************************************)
Blank ==
    [op |-> "none", username |-> "", password |-> "", token |-> NoToken,
     movie_id |-> 0, title |-> "", description |-> "", actor |-> 0,
     status |-> 0, detail |-> "", body |-> <<>>, access_token |-> NoToken]

Summary(movie) == [id |-> movie.id, title |-> movie.title, description |-> movie.description]

IdleReg == [busy |-> FALSE, username |-> "", password |-> ""]

\* The token the client got from its latest successful login, and when.
NoHeld == [token |-> NoToken, at |-> 0]

(***************************************************************************)
(* Authorization guard.                                                    *)
(***************************************************************************)
Unauthorized(detail) == [status |-> 401, detail |-> detail, user_id |-> 0]

get_current_user(token, urows, t) ==
    IF ~token.present THEN Unauthorized("Not authenticated")
    ELSE LET payload == jwt_decode(token, SECRET_KEY, t)
         IN  IF ~payload.ok THEN Unauthorized("Could not validate credentials")
             ELSE IF payload.user_id = 0 THEN Unauthorized("Could not validate credentials")
             ELSE IF GetById(urows, payload.user_id) = {}
                  THEN Unauthorized("Could not validate credentials")
             ELSE [status |-> 200, detail |-> "", user_id |-> payload.user_id]

(***************************************************************************)
(* Registration: the existence check and the commit are separate steps of  *)
(* a request, so two requests can interleave between them.                 *)
(***************************************************************************)
RegisterCheck(p, username, password) ==
    /\ ~reg[p].busy
    /\ before' = [users |-> users, movies |-> movies]
    /\ IF ByUsername(users, username) # {}
       THEN /\ last' = [Blank EXCEPT !.op = "register", !.username = username,
                                     !.password = password, !.status = 400,
                                     !.detail = "Username already taken"]
            /\ reg' = reg
       ELSE /\ reg' = [reg EXCEPT ![p] = [busy |-> TRUE, username |-> username,
                                          password |-> password]]
            /\ last' = [Blank EXCEPT !.op = "register_check", !.username = username,
                                     !.password = password]
    /\ UNCHANGED <<users, movies, now, held, pages, mwlog>>

RegisterCommit(p) ==
    /\ reg[p].busy
    /\ NextId(users) <= MaxUsers
    /\ before' = [users |-> users, movies |-> movies]
    /\ reg' = [reg EXCEPT ![p] = IdleReg]
    /\ \E salt \in Salts :
         LET user == [id |-> NextId(users), username |-> reg[p].username,
                      password |-> get_password_hash(reg[p].password, salt)]
         IN  IF UniqueViolation(users, user.username)
             THEN /\ users' = users
                  /\ last' = [Blank EXCEPT !.op = "register", !.username = user.username,
                                           !.password = reg[p].password, !.status = 500,
                                           !.detail = "Internal Server Error"]
             ELSE /\ users' = users \cup {user}
                  /\ last' = [Blank EXCEPT !.op = "register", !.username = user.username,
                                           !.password = reg[p].password, !.status = 200,
                                           !.detail = "User created successfully"]
    /\ UNCHANGED <<movies, now, held, pages, mwlog>>

(***************************************************************************)
(* Login.                                                                  *)
(***************************************************************************)
InvalidCredentials_NoVerify(urows, password) == urows = {}

\* user is None or not verify_password(password, user.password)
InvalidCredentials(urows, password) ==
    \/ urows = {}
    \/ ~verify_password(password, (CHOOSE u \in urows : TRUE).password)

login_for_access_token(urows, username, password, t) ==
    LET found == ByUsername(urows, username)
    IN  IF InvalidCredentials(found, password)
        THEN [status |-> 401, detail |-> "Invalid credentials", access_token |-> NoToken]
        ELSE [status |-> 200, detail |-> "bearer",
              access_token |-> create_access_token((CHOOSE u \in found : TRUE).id, t)]

Login(username, password) ==
    LET r == login_for_access_token(users, username, password, now)
    IN  /\ before' = [users |-> users, movies |-> movies]
        /\ last' = [Blank EXCEPT !.op = "login", !.username = username,
                                 !.password = password, !.status = r.status,
                                 !.detail = r.detail, !.access_token = r.access_token]
        /\ held' = IF r.status = 200 THEN [token |-> r.access_token, at |-> now] ELSE held
        /\ UNCHANGED <<users, movies, now, reg, pages, mwlog>>

InitAuth ==
    /\ users = {}
    /\ movies = {}
    /\ now = BootTicks
    /\ reg = [p \in Procs |-> IdleReg]
    /\ held = NoHeld
    /\ last = Blank
    /\ before = [users |-> {}, movies |-> {}]
    /\ pages = <<>>
    /\ mwlog = <<>>

NextAuth ==
    \/ \E p \in Procs, username \in Usernames, password \in Passwords :
         RegisterCheck(p, username, password)
    \/ \E p \in Procs : RegisterCommit(p)
    \/ \E username \in Usernames, password \in Passwords : Login(username, password)

SpecAuth == InitAuth /\ [][NextAuth]_vars

(***************************************************************************)
(* Movie catalog.  Each protected handler runs after its dependencies:     *)
(* get_current_user either raises 401 (the handler body never runs) or     *)
(* hands the resolved user to the body.                                    *)
(***************************************************************************)
MovieIdInputs == 1..(MaxMovieId + 1)

\* Tokens a client may present.  Tokens are stateless, so the server keeps
\* none: a client holds tokens login issued now (FreshExp) or before the
\* start (StaleExp), may alter their claims, or may sign claims itself.
FreshExp == TokenExpiry(BootTicks)
StaleExp == BootSeconds - 1
UserIdClaims == 0..MaxUsers
Signed(key) == {jwt_encode(u, e, key) : u \in UserIdClaims, e \in {FreshExp, StaleExp}}
\* Claims signed with a key that is not the server's.
Forged == {jwt_encode(1, FreshExp, OtherKey)}
\* A server-signed token whose claims were changed afterwards: the expiry of
\* an expired token moved forward, or the user id replaced by another's.
Altered ==
    {[jwt_encode(1, StaleExp, SECRET_KEY) EXCEPT !.exp = FreshExp],
     [jwt_encode(1, FreshExp, SECRET_KEY) EXCEPT !.user_id = 2]}
TokenInputs == {NoToken} \cup Signed(SECRET_KEY) \cup Forged \cup Altered

Snapshot == [users |-> users, movies |-> movies]

\* The 401 a protected endpoint answers when the guard raises.
Rejected(op, token, auth) ==
    /\ last' = [Blank EXCEPT !.op = op, !.token = token, !.status = auth.status,
                             !.detail = auth.detail]
    /\ movies' = movies

\* Movie(title=title, description=description, user_id=user.id)
NewMovie(id, title, description, user_id) ==
    [id |-> id, title |-> title, description |-> description, user_id |-> user_id]

create_movie ==
    \E token \in TokenInputs :
      LET auth == get_current_user(token, users, now)
      IN  /\ before' = Snapshot
          /\ IF auth.status # 200
             THEN Rejected("create_movie", token, auth)
             ELSE \E text \in MovieTexts :
                    LET title == text[1]
                        description == text[2]
                        movie == NewMovie(NextId(movies), title, description, auth.user_id)
                    IN  /\ movie.id <= MaxMovieId
                        /\ movies' = movies \cup {movie}
                        /\ last' = [Blank EXCEPT !.op = "create_movie", !.token = token,
                                       !.actor = auth.user_id, !.title = title,
                                       !.description = description, !.status = 200,
                                       !.body = <<Summary(movie)>>]
          /\ UNCHANGED <<users, now, reg, held, pages, mwlog>>

\* db.query(Movie).get(movie_id); 404 when absent.
get_movie_response(mrows, movie_id) ==
    LET found == GetById(mrows, movie_id)
    IN  IF found = {}
        THEN [status |-> 404, detail |-> "Movie not found", body |-> <<>>]
        ELSE [status |-> 200, detail |-> "", body |-> <<Summary(CHOOSE m \in found : TRUE)>>]

get_movie ==
    \E movie_id \in MovieIdInputs :
      LET r == get_movie_response(movies, movie_id)
      IN  /\ before' = Snapshot
          /\ last' = [Blank EXCEPT !.op = "get_movie", !.movie_id = movie_id,
                                   !.status = r.status, !.detail = r.detail,
                                   !.body = r.body]
          /\ UNCHANGED <<users, movies, now, reg, held, pages, mwlog>>

NotFoundOrNotOwner_NoOwnerCheck(found, user_id) == found = {}

\* movie is None or movie.user_id != user.id
NotFoundOrNotOwner(found, user_id) ==
    \/ found = {}
    \/ (CHOOSE m \in found : TRUE).user_id # user_id

UpdatedMovie_DropsOwner(movie, title, description) ==
    [id |-> movie.id, title |-> title, description |-> description, user_id |-> 0]

\* movie.title = title; movie.description = description
UpdatedMovie(movie, title, description) ==
    [movie EXCEPT !.title = title, !.description = description]

update_movie ==
    \E token \in TokenInputs :
      LET auth == get_current_user(token, users, now)
      IN  /\ before' = Snapshot
          /\ IF auth.status # 200
             THEN Rejected("update_movie", token, auth)
             ELSE \E movie_id \in MovieIdInputs, text \in MovieTexts :
                    LET title == text[1]
                        description == text[2]
                        found == GetById(movies, movie_id)
                        req == [Blank EXCEPT !.op = "update_movie", !.token = token,
                                   !.actor = auth.user_id, !.movie_id = movie_id,
                                   !.title = title, !.description = description]
                    IN  IF NotFoundOrNotOwner(found, auth.user_id)
                        THEN /\ movies' = movies
                             /\ last' = [req EXCEPT !.status = 404,
                                   !.detail = "Movie not found or not authorized"]
                        ELSE LET movie == CHOOSE m \in found : TRUE
                                 updated == UpdatedMovie(movie, title, description)
                             IN  /\ movies' = (movies \ {movie}) \cup {updated}
                                 /\ last' = [req EXCEPT !.status = 200,
                                                       !.body = <<Summary(updated)>>]
          /\ UNCHANGED <<users, now, reg, held, pages, mwlog>>

MoviesAfterDelete_NotRemoved(mrows, movie) == mrows

\* db.delete(movie); db.commit()
MoviesAfterDelete(mrows, movie) == mrows \ {movie}

delete_movie ==
    \E token \in TokenInputs :
      LET auth == get_current_user(token, users, now)
      IN  /\ before' = Snapshot
          /\ IF auth.status # 200
             THEN Rejected("delete_movie", token, auth)
             ELSE \E movie_id \in MovieIdInputs :
                    LET found == GetById(movies, movie_id)
                        req == [Blank EXCEPT !.op = "delete_movie", !.token = token,
                                   !.actor = auth.user_id, !.movie_id = movie_id]
                    IN  IF NotFoundOrNotOwner(found, auth.user_id)
                        THEN /\ movies' = movies
                             /\ last' = [req EXCEPT !.status = 404,
                                   !.detail = "Movie not found or not authorized"]
                        ELSE /\ movies' = MoviesAfterDelete(movies, CHOOSE m \in found : TRUE)
                             /\ last' = [req EXCEPT !.status = 200,
                                   !.detail = "Movie deleted successfully"]
          /\ UNCHANGED <<users, now, reg, held, pages, mwlog>>

\* The users table after alice and bob registered (reachable under SpecAuth).
SeedUsers ==
    {[id |-> 1, username |-> "alice", password |-> get_password_hash("pw1", "s1")],
     [id |-> 2, username |-> "bob", password |-> get_password_hash("pw2", "s2")]}

Init ==
    /\ users = SeedUsers
    /\ movies = {}
    /\ now = BootTicks
    /\ reg = [p \in Procs |-> IdleReg]
    /\ held = NoHeld
    /\ last = Blank
    /\ before = [users |-> SeedUsers, movies |-> {}]
    /\ pages = <<>>
    /\ mwlog = <<>>

Next ==
    \/ create_movie
    \/ get_movie
    \/ update_movie
    \/ delete_movie

Spec == Init /\ [][Next]_vars

(***************************************************************************)
(* Listing.  The query has no ORDER BY: the rows come in the order of the  *)
(* engine's scan of the table, which SQLite leaves undefined and can run   *)
(* by ascending or by descending rowid.                                    *)
(***************************************************************************)
RECURSIVE Ascending(_)
Ascending(rows) ==
    IF rows = {} THEN <<>>
    ELSE LET first == CHOOSE r \in rows : \A q \in rows : r.id <= q.id
         IN  <<first>> \o Ascending(rows \ {first})

Reverse(seq) == [i \in 1..Len(seq) |-> seq[Len(seq) + 1 - i]]

ScanOrders(rows) == {Ascending(rows), Reverse(Ascending(rows))}

\* .offset(skip).limit(limit).all()
OffsetLimit(scan, skip, limit) ==
    [i \in 1..(IF Len(scan) - skip < limit
               THEN (IF Len(scan) > skip THEN Len(scan) - skip ELSE 0)
               ELSE limit) |-> scan[skip + i]]

get_movies_response(scan, skip, limit) ==
    LET rows == OffsetLimit(scan, skip, limit)
    IN  [i \in 1..Len(rows) |-> Summary(rows[i])]

\* The ids a listing returned.
PageIds(page) == {page.rows[i].id : i \in 1..Len(page.rows)}

\* pages keeps the two latest listings.
get_movies ==
    \E skip \in 0..MaxListMovies, limit \in 0..MaxListMovies, scan \in ScanOrders(movies) :
      LET page == [skip |-> skip, limit |-> limit,
                   rows |-> get_movies_response(scan, skip, limit)]
      IN  /\ pages' = IF Len(pages) = 2 THEN <<pages[2], page>> ELSE Append(pages, page)
          /\ UNCHANGED <<users, movies, now, reg, held, last, before>>
          /\ UNCHANGED mwlog

\* Catalogs left by creations and deletions: any set of ids can remain.
SeedCatalogs == SUBSET {NewMovie(i, "X", "Y", 1) : i \in 1..MaxListMovies}

InitList ==
    /\ users = SeedUsers
    /\ movies \in SeedCatalogs
    /\ now = BootTicks
    /\ reg = [p \in Procs |-> IdleReg]
    /\ held = NoHeld
    /\ last = Blank
    /\ before = [users |-> SeedUsers, movies |-> movies]
    /\ pages = <<>>
    /\ mwlog = <<>>

NextList == get_movies

SpecList == InitList /\ [][NextList]_vars

(***************************************************************************)
(* Token lifetime: a client logs in, time passes, and the guard resolves   *)
(* the held token.  A clock step clears the record of the last request, so *)
(* last always describes a request made at the current instant.            *)
(***************************************************************************)
Tick ==
    /\ now < MaxClock
    /\ now' = now + 1
    /\ last' = Blank
    /\ UNCHANGED <<users, movies, reg, held, before, pages, mwlog>>

EarlyLogin(username, password) ==
    /\ now <= BootTicks + MaxIssueDelay
    /\ Login(username, password)

Authorize ==
    /\ held.token.present
    /\ LET auth == get_current_user(held.token, users, now)
       IN  last' = [Blank EXCEPT !.op = "authorize", !.token = held.token,
                                 !.actor = auth.user_id, !.status = auth.status,
                                 !.detail = auth.detail]
    /\ before' = Snapshot
    /\ UNCHANGED <<users, movies, now, reg, held, pages, mwlog>>

NextToken ==
    \/ Tick
    \/ \E username \in Usernames, password \in Passwords : EarlyLogin(username, password)
    \/ Authorize

SpecToken == Init /\ [][NextToken]_vars

(***************************************************************************)
(* The session middleware, one action per HTTP request.                    *)
(***************************************************************************)
\* Names bound in the module's namespace when a request arrives (the
\* imports and assignments of lines 1-64, and the functions defined after).
ModuleNames ==
    {"FastAPI", "Depends", "HTTPException", "status", "OAuth2PasswordBearer", "OAuth2",
     "JSONResponse", "Request", "BaseModel", "create_engine", "Column", "Integer",
     "String", "Float", "ForeignKey", "declarative_base", "sessionmaker", "Session",
     "relationship", "JWTError", "jwt", "CryptContext", "datetime", "timedelta", "os",
     "logging", "logger", "SQLALCHEMY_DATABASE_URL", "engine", "SessionLocal", "Base",
     "SECRET_KEY", "ALGORITHM", "ACCESS_TOKEN_EXPIRE_MINUTES", "pwd_context",
     "oauth2_scheme", "User", "Movie", "Rating", "Comment", "app"}

\* What one run of db_session_middleware does: sessions acquired and closed,
\* and how the request ends.  acquire_ok: SessionLocal() returns a session;
\* handler: call_next returns a response or raises.
MiddlewareRun(acquire_ok, handler) ==
    LET req == [acquire_ok |-> acquire_ok, handler |-> handler]
    IN  IF "Response" \notin ModuleNames
        THEN \* line 68 raises NameError before the try block
             [req |-> req, acquired |-> 0, closed |-> 0, outcome |-> "NameError"]
        ELSE IF ~acquire_ok
        THEN \* line 70 raises; the finally block reads request.state.db, never set
             [req |-> req, acquired |-> 0, closed |-> 0, outcome |-> "AttributeError"]
        ELSE IF handler = "raises"
        THEN [req |-> req, acquired |-> 1, closed |-> 1, outcome |-> "handler_error"]
        ELSE [req |-> req, acquired |-> 1, closed |-> 1, outcome |-> "response"]

db_session_middleware ==
    \E acquire_ok \in BOOLEAN, handler \in {"returns", "raises"} :
      /\ Len(mwlog) < MaxRequests
      /\ mwlog' = Append(mwlog, MiddlewareRun(acquire_ok, handler))
      /\ UNCHANGED <<users, movies, now, reg, held, last, before, pages>>

NextMW == db_session_middleware

SpecMW == InitAuth /\ [][NextMW]_vars

C5_Login ==
    last.op = "login" =>
      LET found == ByUsername(before.users, last.username)
          matches == {u \in found : verify_password(last.password, u.password)}
      IN  /\ last.status \in {200, 401}
          /\ last.status = 200 =>
                \E u \in matches :
                   /\ last.access_token.present
                   /\ last.access_token.user_id = u.id
                   /\ last.access_token.sig =
                        Sign(SECRET_KEY, u.id, last.access_token.exp)
          /\ matches = {} =>
                /\ last.status = 401
                /\ last.detail = "Invalid credentials"
                /\ last.access_token = NoToken
                /\ users = before.users
                /\ movies = before.movies

\* A login with a registered username and a wrong password was refused.
C5_Witness ==
    /\ last.op = "login"
    /\ last.status = 401
    /\ ByUsername(users, last.username) # {}
    /\ \A u \in ByUsername(users, last.username) :
          ~verify_password(last.password, u.password)

(***************************************************************************)
(* C1: when an authenticated user who is not the movie's owner updates or  *)
(* deletes it, the answer is 404 with the very response given for an id    *)
(* that does not exist (never 403), and the catalog is left as it was.     *)
(***************************************************************************)
C1_NonOwnerGetsNotFound ==
    (last.op \in {"update_movie", "delete_movie"} /\ last.actor # 0) =>
      LET found == GetById(before.movies, last.movie_id)
      IN  /\ (found = {} \/ \E m \in found : m.user_id # last.actor) =>
                /\ last.status = 404
                /\ last.detail = "Movie not found or not authorized"
                /\ last.body = <<>>
                /\ movies = before.movies
          /\ last.status # 403

\* Bob, authenticated, tried to update a movie that exists and is Alice's.
C1_Witness ==
    /\ last.op = "update_movie"
    /\ last.actor # 0
    /\ \E m \in before.movies : m.id = last.movie_id /\ m.user_id # last.actor
    /\ \E m \in movies : m.id = last.movie_id

(***************************************************************************)
(* C4: a protected operation gets past the guard, and so can change the    *)
(* catalog, only with a token that is present, carries the server's        *)
(* signature over its own claims, is unexpired and names an existing user; *)
(* with any other token the answer is 401 and users and movies are as      *)
(* before.                                                                 *)
(***************************************************************************)
C4_GuardedOperations ==
    last.op \in {"create_movie", "update_movie", "delete_movie"} =>
      LET tok == last.token
          good == /\ tok.present
                  /\ tok.sig = Sign(SECRET_KEY, tok.user_id, tok.exp)
                  /\ tok.exp >= UtcSeconds(now)
                  /\ tok.user_id # 0
                  /\ tok.user_id \in Ids(before.users)
      IN  /\ ~good => /\ last.status = 401
                      /\ users = before.users
                      /\ movies = before.movies
          /\ good => /\ last.status # 401
                     /\ last.actor = tok.user_id

\* A token whose expiry was altered to lie in the future was refused.
C4_Witness ==
    /\ last.op = "create_movie"
    /\ last.status = 401
    /\ last.token.present
    /\ last.token.exp >= UtcSeconds(now)
    /\ last.token.user_id \in Ids(users)
    /\ last.token.sig # Sign(SECRET_KEY, last.token.user_id, last.token.exp)

(***************************************************************************)
(* C8: once the owner's delete_movie(id) has succeeded, the movie is gone: *)
(* get_movie(id) answers 404 and no listing, whatever its offset, limit    *)
(* and scan order, contains the id.                                        *)
(***************************************************************************)
C8_DeletedIsGone ==
    (last.op = "delete_movie" /\ last.status = 200) =>
      /\ \E m \in before.movies : m.id = last.movie_id /\ m.user_id = last.actor
      /\ get_movie_response(movies, last.movie_id).status = 404
      /\ \A scan \in ScanOrders(movies), skip \in 0..MaxMovieId, limit \in 0..MaxMovieId :
           LET rows == get_movies_response(scan, skip, limit)
           IN  \A i \in 1..Len(rows) : rows[i].id # last.movie_id
      /\ \A m \in before.movies : m.id # last.movie_id => m \in movies

\* A delete succeeded while another movie stayed in the catalog.
C8_Witness ==
    /\ last.op = "delete_movie"
    /\ last.status = 200
    /\ movies # {}

(***************************************************************************)
(* C9: a successful create_movie(X, Y) stores exactly one new row, under   *)
(* an id no movie held before, owned by the actor, and get_movie on the    *)
(* returned id gives back that id with title X and description Y; the      *)
(* movies that existed are untouched.                                      *)
(***************************************************************************)
C9_CreateRoundTrip ==
    (last.op = "create_movie" /\ last.status = 200) =>
      /\ Len(last.body) = 1
      /\ LET id == last.body[1].id
         IN  /\ id \notin Ids(before.movies)
             /\ GetById(movies, id) =
                  {[id |-> id, title |-> last.title, description |-> last.description,
                    user_id |-> last.actor]}
             /\ last.actor \in Ids(users)
             /\ get_movie_response(movies, id) =
                  [status |-> 200, detail |-> "",
                   body |-> <<[id |-> id, title |-> last.title,
                               description |-> last.description]>>]
             /\ movies \ GetById(movies, id) = before.movies

\* A movie with title X and description Y was created beside an existing one.
C9_Witness ==
    /\ last.op = "create_movie"
    /\ last.status = 200
    /\ Cardinality(movies) = 2
    /\ last.title = "X"
    /\ last.description = "Y"

(***************************************************************************)
(* C10: no request changes the owner of a movie that exists before and     *)
(* after it; in particular a successful update by the owner keeps user_id. *)
(***************************************************************************)
C10_OwnerNeverChanges ==
    /\ \A b \in before.movies : \A m \in movies : m.id = b.id => m.user_id = b.user_id
    /\ \A m \in movies : m.user_id \in Ids(users)

\* The owner's update went through and changed the title.
C10_Witness ==
    /\ last.op = "update_movie"
    /\ last.status = 200
    /\ \E b \in before.movies : b.id = last.movie_id /\ b.title # last.title
    /\ \E m \in movies : m.id = last.movie_id /\ m.title = last.title

(***************************************************************************)
(* C3 as stated: the held token, issued at tick held.at, is accepted at    *)
(* every instant up to held.at + 30 min and refused with 401 at every      *)
(* later instant.                                                          *)
(***************************************************************************)
C3_ExactThirtyMinutes ==
    (last.op = "authorize" /\ last.token = held.token) =>
      /\ now <= held.at + ExpireSeconds * TicksPerSec =>
           (last.status = 200 /\ last.actor = held.token.user_id)
      /\ now > held.at + ExpireSeconds * TicksPerSec => last.status = 401

(***************************************************************************)
(* C3 amended: the token is accepted at every instant up to held.at +      *)
(* 30 min, and refused with 401 as soon as the clock's whole second is     *)
(* past the whole second of the issue time plus 1800, which is the case    *)
(* from one second after held.at + 30 min at the latest.                   *)
(***************************************************************************)
C3_ThirtyMinutesToTheSecond ==
    (last.op = "authorize" /\ last.token = held.token) =>
      /\ now <= held.at + ExpireSeconds * TicksPerSec =>
           (last.status = 200 /\ last.actor = held.token.user_id)
      /\ UtcSeconds(now) > UtcSeconds(held.at) + ExpireSeconds => last.status = 401
      /\ now >= held.at + (ExpireSeconds + 1) * TicksPerSec => last.status = 401

\* The token was presented after its expiry and refused.
C3_Witness ==
    /\ last.op = "authorize"
    /\ last.token = held.token
    /\ last.status = 401
    /\ now > held.at + ExpireSeconds * TicksPerSec

\* The token was presented at the last instant of its thirty minutes.
C3_WitnessAccepted ==
    /\ last.op = "authorize"
    /\ last.status = 200
    /\ now = held.at + ExpireSeconds * TicksPerSec

(***************************************************************************)
(* C7: two listings of one catalog, skip 0 and skip L with limit L, on a   *)
(* catalog of more than L and at most 2L movies: the first holds L movies, *)
(* the second the rest, they share no movie, and together they hold every  *)
(* movie once.                                                             *)
(***************************************************************************)
C7_PagesPartitionCatalog ==
    \A L \in 1..MaxListMovies :
      (/\ Len(pages) = 2
       /\ pages[1].skip = 0 /\ pages[1].limit = L
       /\ pages[2].skip = L /\ pages[2].limit = L
       /\ Cardinality(movies) > L
       /\ Cardinality(movies) <= 2 * L) =>
         /\ Len(pages[1].rows) = L
         /\ Len(pages[2].rows) = Cardinality(movies) - L
         /\ PageIds(pages[1]) \cap PageIds(pages[2]) = {}
         /\ PageIds(pages[1]) \cup PageIds(pages[2]) = Ids(movies)

(***************************************************************************)
(* C6: every request acquires a session unless the acquisition itself      *)
(* fails, closes exactly the sessions it acquired, and ends with its own   *)
(* outcome: the handler's response, the handler's error or the             *)
(* acquisition's error, never an error raised by the middleware's own      *)
(* bookkeeping.                                                            *)
(***************************************************************************)
C6_SessionPerRequest ==
    \A i \in 1..Len(mwlog) :
      LET r == mwlog[i]
      IN  /\ r.req.acquire_ok => r.acquired = 1
          /\ r.closed = r.acquired
          /\ r.outcome = (IF ~r.req.acquire_ok THEN "acquire_error"
                          ELSE IF r.req.handler = "raises" THEN "handler_error"
                          ELSE "response")

====
